---------------------------- MODULE Spec2Model ----------------------------
(***************************************************************************)
(* A model of avdemchenko/dns-resolver: the DNS name codec, the response   *)
(* parser and the iterative resolution engine (queryDNS /                  *)
(* processDNSResponse).                                                    *)
(*                                                                         *)
(* Conventions.  A Buffer is a sequence of bytes 0..255; buffer offsets    *)
(* are 0-based as in the source, so byte `offset` is buffer[offset + 1].   *)
(* A JavaScript string is the sequence of its character codes ('.' is 46). *)
(* The two JavaScript values the code can produce by reading outside a     *)
(* buffer are modelled by Undefined and NaN.                               *)
(***************************************************************************)
EXTENDS Integers, Sequences, FiniteSets, TLC

VARIABLES
    call,       \* codec harness: the pure function applied, its input, its result
    hops,       \* engine: one record per queryDNS call (socket + query), in order
    status,     \* engine: "running", "crashed" (uncaught exception), "hung"
    log,        \* engine: what was written to the console / stderr, in order
    lastMsg,    \* engine history: index in Datagrams of the last datagram handled
    lastHop     \* engine history: the hop whose 'message' handler ran last

vars == <<call, hops, status, log, lastMsg, lastHop>>

codecVars == <<call>>
engineVars == <<hops, status, log, lastMsg, lastHop>>

----------------------------------------------------------------------------
(* Bounds of the model.                                                    *)

MaxBufLen == 4
MaxLabels == 2
MaxHops == 3

----------------------------------------------------------------------------
(* JavaScript values and small helpers.                                    *)

\* buffer[i] for an index outside the buffer
Undefined == -1
\* the result of arithmetic on undefined
NaN == -2

Min(S) == CHOOSE x \in S : \A y \in S : x <= y

RECURSIVE Flatten(_)
Flatten(ss) == IF ss = <<>> THEN <<>> ELSE Head(ss) \o Flatten(Tail(ss))

\* buffer[offset]
BufAt(buffer, offset) ==
    IF offset # NaN /\ offset >= 0 /\ offset < Len(buffer)
    THEN buffer[offset + 1]
    ELSE Undefined

\* a + b on numbers where either may be undefined or NaN
JsAdd(a, b) ==
    IF a = NaN \/ a = Undefined \/ b = NaN \/ b = Undefined THEN NaN ELSE a + b

\* Buffer.prototype.toString('ascii', start, end): out-of-range and NaN
\* bounds are clamped, and every byte is decoded with its high bit cleared.
toStringAscii(buffer, start, end) ==
    LET len == Len(buffer)
        s == IF start = NaN \/ start <= 0 THEN 0 ELSE start
        e == IF end = NaN THEN 0 ELSE IF end > len THEN len ELSE end
    IN  IF s >= len \/ e <= s
        THEN <<>>
        ELSE [i \in 1..(e - s) |-> buffer[s + i] % 128]

----------------------------------------------------------------------------
(* parseDomainName.ts                                                      *)

isEndOfName(lengthByte) == lengthByte = 0

\* a pointer test that looks at the top bit only: (lengthByte & 0x80) === 0x80
isPointerIndicator_TopBit(lengthByte) ==
    lengthByte # Undefined /\ lengthByte \div 128 = 1

\* (lengthByte & 0xc0) === 0xc0; undefined & 0xc0 is 0
isPointerIndicator(lengthByte) ==
    lengthByte # Undefined /\ lengthByte \div 64 = 3

\* a pointer target taken from the second byte alone
calculatePointerOffset_LowByte(lengthByte, buffer, currentOffset) ==
    LET low == BufAt(buffer, currentOffset + 1)
    IN  IF low = Undefined THEN 0 ELSE low

\* ((lengthByte & 0x3f) << 8) | buffer[currentOffset + 1]; x | undefined is x
calculatePointerOffset(lengthByte, buffer, currentOffset) ==
    LET low == BufAt(buffer, currentOffset + 1)
    IN  (lengthByte % 64) * 256 + (IF low = Undefined THEN 0 ELSE low)

\* a label read that starts at the length byte instead of after it
readLabel_FromLengthByte(buffer, offset, length) ==
    toStringAscii(buffer, offset, JsAdd(offset, length))

readLabel(buffer, offset, length) ==
    LET startOfLabel == JsAdd(offset, 1)
        endOfLabel == JsAdd(startOfLabel, length)
    IN  toStringAscii(buffer, startOfLabel, endOfLabel)

(***************************************************************************)
(* The while (true) loop of parseDomainName.  Which branch an iteration    *)
(* takes, and the offset of the next iteration, depend only on the         *)
(* (immutable) buffer and on `offset`: an iteration that starts at an      *)
(* offset at which an earlier iteration started repeats it for ever.       *)
(* `visited` records the offsets of the iterations so far, and the result  *)
(* "hang" stands for that loop: it raises nothing and never returns (a     *)
(* loop through a label appends to `name` on every round, and ends only    *)
(* when the process runs out of memory).                                   *)
(***************************************************************************)
RECURSIVE parseDomainNameLoop(_, _, _, _, _, _)
parseDomainNameLoop(buffer, offset, name, hasEncounteredPointer, originalOffset, visited) ==
    LET lengthByte == BufAt(buffer, offset) IN
    IF offset \in visited
    THEN [st |-> "hang", domainName |-> name, newOffset |-> NaN]
    ELSE IF isEndOfName(lengthByte)
    THEN [st |-> "ok", domainName |-> name,
          newOffset |-> IF hasEncounteredPointer
                        THEN originalOffset ELSE offset + 1]
    ELSE IF isPointerIndicator(lengthByte)
    THEN parseDomainNameLoop(
             buffer,
             calculatePointerOffset(lengthByte, buffer, offset),
             name,
             TRUE,
             IF ~hasEncounteredPointer THEN offset + 2 ELSE originalOffset,
             visited \cup {offset})
    ELSE parseDomainNameLoop(
             buffer,
             JsAdd(JsAdd(offset, lengthByte), 1),
             name \o readLabel(buffer, offset, lengthByte) \o <<46>>,
             hasEncounteredPointer,
             originalOffset,
             visited \cup {offset})

parseDomainName(buffer, offset) ==
    parseDomainNameLoop(buffer, offset, <<>>, FALSE, offset, {})

----------------------------------------------------------------------------
(* encodeDomainName.ts                                                     *)

\* String.prototype.split('.')
RECURSIVE splitFrom(_, _)
splitFrom(s, start) ==
    LET dots == {i \in start..Len(s) : s[i] = 46} IN
    IF dots = {}
    THEN <<SubSeq(s, start, Len(s))>>
    ELSE <<SubSeq(s, start, Min(dots) - 1)>> \o splitFrom(s, Min(dots) + 1)

split(domain) == splitFrom(domain, 1)

\* Buffer.concat([Buffer.from([part.length]), Buffer.from(part, 'ascii')]):
\* the length is stored modulo 256, each character as its code modulo 256
encodePart(part) ==
    <<Len(part) % 256>> \o [i \in 1..Len(part) |-> part[i] % 256]

encodeDomainName(domain) ==
    LET parts == split(domain)
        buffers == [i \in 1..Len(parts) |-> encodePart(parts[i])]
    IN  Flatten(buffers) \o <<0>>

----------------------------------------------------------------------------
(* generateIdentifier.ts, createDNSQuery.ts                                *)

\* crypto.randomBytes(2): any two bytes; the model draws from these
generateIdentifier == {<<18, 52>>, <<18, 53>>}

\* a variant that sets the RD flag (flags 0x0100)
createDNSQuery_RecursionDesired(domain, identifier) ==
    identifier \o <<1, 0>> \o <<0, 1>> \o <<0, 0>> \o <<0, 0>> \o <<0, 0>>
        \o encodeDomainName(domain) \o <<0, 1>> \o <<0, 1>>

\* Buffer.concat([identifier, flags, questionCount, answerRR, authorityRR,
\* additionalRR, encodedDomain, type, classBuffer])
createDNSQuery(domain, identifier) ==
    identifier \o <<0, 0>> \o <<0, 1>> \o <<0, 0>> \o <<0, 0>> \o <<0, 0>>
        \o encodeDomainName(domain) \o <<0, 1>> \o <<0, 1>>

----------------------------------------------------------------------------
(* interpretRDataARecord.ts                                                *)

A_RECORD_TYPE == 1
NS_RECORD_TYPE == 2
AAAA_RECORD_TYPE == 28
HEX_BASE == 16

\* the character code of one digit in base 10 or 16 ('0' is 48, 'a' is 97)
digitChar(d) == IF d < 10 THEN 48 + d ELSE 97 + (d - 10)

\* Number.prototype.toString(base) for a non-negative integer
RECURSIVE numberToString(_, _)
numberToString(n, base) ==
    IF n < base
    THEN <<digitChar(n)>>
    ELSE numberToString(n \div base, base) \o <<digitChar(n % base)>>

\* Array.prototype.join(sep) for an array of strings
RECURSIVE join(_, _)
join(parts, sep) ==
    IF parts = <<>> THEN <<>>
    ELSE IF Len(parts) = 1 THEN parts[1]
    ELSE parts[1] \o sep \o join(Tail(parts), sep)

\* a variant that writes each byte in base 16
interpretIPv4Address_Hex(rdata) ==
    join([i \in 1..Len(rdata) |-> numberToString(rdata[i], HEX_BASE)], <<46>>)

\* Array.from(rdata).join('.')
interpretIPv4Address(rdata) ==
    join([i \in 1..Len(rdata) |-> numberToString(rdata[i], 10)], <<46>>)

\* a variant that reads each group with the low byte first
interpretIPv6Address_LittleEndian(rdata) ==
    IF Len(rdata) % 2 = 1
    THEN [st |-> "throw", err |-> "RangeError", value |-> <<>>]
    ELSE [st |-> "ok", err |-> "",
          value |-> join([g \in 1..(Len(rdata) \div 2) |->
                             numberToString(rdata[2 * g] * 256 + rdata[2 * g - 1],
                                            HEX_BASE)],
                         <<58>>)]

\* readUInt16BE(byteIndex) for byteIndex = 0, 2, ... < rdata.length: the read
\* of the last group throws a RangeError when rdata.length is odd
interpretIPv6Address(rdata) ==
    IF Len(rdata) % 2 = 1
    THEN [st |-> "throw", err |-> "RangeError", value |-> <<>>]
    ELSE [st |-> "ok", err |-> "",
          value |-> join([g \in 1..(Len(rdata) \div 2) |->
                             numberToString(rdata[2 * g - 1] * 256 + rdata[2 * g],
                                            HEX_BASE)],
                         <<58>>)]

\* Buffer.prototype.toString('hex'): two lowercase digits per byte
toStringHex(rdata) ==
    Flatten([i \in 1..Len(rdata) |->
                <<digitChar(rdata[i] \div 16), digitChar(rdata[i] % 16)>>])

interpretRDataARecord(rdata, type) ==
    IF type = A_RECORD_TYPE
    THEN [st |-> "ok", err |-> "", value |-> interpretIPv4Address(rdata)]
    ELSE IF type = AAAA_RECORD_TYPE
    THEN interpretIPv6Address(rdata)
    ELSE [st |-> "ok", err |-> "", value |-> toStringHex(rdata)]

----------------------------------------------------------------------------
(* parseResponse.ts                                                        *)

\* Buffer.prototype.readUInt16BE(offset) throws a RangeError unless
\* 0 <= offset <= buffer.length - 2
canReadUInt16BE(buffer, offset) ==
    offset # NaN /\ offset >= 0 /\ offset + 2 <= Len(buffer)

readUInt16BE(buffer, offset) == buffer[offset + 1] * 256 + buffer[offset + 2]

\* Buffer.prototype.slice(start, end): the end is clamped to the buffer
slice(buffer, start, end) ==
    LET e == IF end > Len(buffer) THEN Len(buffer) ELSE end
    IN  IF start >= e THEN <<>> ELSE SubSeq(buffer, start + 1, e)

\* a QR test on the wrong field: the identifier at offset 0
isResponse_Offset0(buffer) == readUInt16BE(buffer, 0) \div 32768 = 1

\* (flags & 0x8000) !== 0
isResponse(buffer) == readUInt16BE(buffer, 2) \div 32768 = 1

parseHeader(buffer) ==
    [transactionID |-> readUInt16BE(buffer, 0),
     questionsCount |-> readUInt16BE(buffer, 4),
     answersCount |-> readUInt16BE(buffer, 6),
     authorityCount |-> readUInt16BE(buffer, 8),
     additionalCount |-> readUInt16BE(buffer, 10)]

parseQuestionSection(buffer, offset) == parseDomainName(buffer, offset)

\* what parseRecord produces: a DNSRecord (st = "ok"), a thrown error
\* (st = "throw") or no return at all (st = "hang")
recordResult(st, err, domainName, type, rdata, offset) ==
    [st |-> st, err |-> err,
     record |-> [domainName |-> domainName, type |-> type,
                 rdata |-> rdata, offset |-> offset]]

\* a parseRecord that advances by dataLength for an NS record too
parseRecordData_NSByLength(buffer, domainName, type, dataLength, rdataOffset) ==
    IF type = NS_RECORD_TYPE
    THEN LET nsName == parseDomainName(buffer, rdataOffset) IN
         IF nsName.st = "hang"
         THEN recordResult("hang", "", <<>>, 0, <<>>, NaN)
         ELSE recordResult("ok", "", domainName, type,
                           nsName.domainName, rdataOffset + dataLength)
    ELSE LET rdataBuffer == slice(buffer, rdataOffset, rdataOffset + dataLength)
             interpreted == interpretRDataARecord(rdataBuffer, type)
         IN  IF interpreted.st = "throw"
             THEN recordResult("throw", interpreted.err, <<>>, 0, <<>>, NaN)
             ELSE recordResult("ok", "", domainName, type,
                               interpreted.value, rdataOffset + dataLength)

\* parseRecord from the read of the rdata on: an NS record's rdata is a
\* name, any other record's rdata is the slice of dataLength bytes
parseRecordData(buffer, domainName, type, dataLength, rdataOffset) ==
    IF type = NS_RECORD_TYPE
    THEN LET nsName == parseDomainName(buffer, rdataOffset) IN
         IF nsName.st = "hang"
         THEN recordResult("hang", "", <<>>, 0, <<>>, NaN)
         ELSE recordResult("ok", "", domainName, type,
                           nsName.domainName, nsName.newOffset)
    ELSE LET rdataBuffer == slice(buffer, rdataOffset, rdataOffset + dataLength)
             interpreted == interpretRDataARecord(rdataBuffer, type)
         IN  IF interpreted.st = "throw"
             THEN recordResult("throw", interpreted.err, <<>>, 0, <<>>, NaN)
             ELSE recordResult("ok", "", domainName, type,
                               interpreted.value, rdataOffset + dataLength)

\* a parseRecord that does not skip the class and the TTL: the rdata length
\* is read 2 bytes after the type
parseRecordFields_NoClassTTL(buffer, domainName, typeOffset) ==
    IF ~canReadUInt16BE(buffer, typeOffset)
    THEN recordResult("throw", "RangeError", <<>>, 0, <<>>, NaN)
    ELSE IF ~canReadUInt16BE(buffer, typeOffset + 2)
    THEN recordResult("throw", "RangeError", <<>>, 0, <<>>, NaN)
    ELSE parseRecordData(buffer, domainName,
                         readUInt16BE(buffer, typeOffset),
                         readUInt16BE(buffer, typeOffset + 2),
                         typeOffset + 2 + 2)

\* parseRecord from the read of the type on: type at typeOffset, class and
\* TTL skipped, the rdata length 8 bytes after the type
parseRecordFields(buffer, domainName, typeOffset) ==
    IF ~canReadUInt16BE(buffer, typeOffset)
    THEN recordResult("throw", "RangeError", <<>>, 0, <<>>, NaN)
    ELSE IF ~canReadUInt16BE(buffer, typeOffset + 2 + 2 + 4)
    THEN recordResult("throw", "RangeError", <<>>, 0, <<>>, NaN)
    ELSE parseRecordData(buffer, domainName,
                         readUInt16BE(buffer, typeOffset),
                         readUInt16BE(buffer, typeOffset + 2 + 2 + 4),
                         typeOffset + 2 + 2 + 4 + 2)

parseRecord(buffer, offset) ==
    LET domainNameData == parseDomainName(buffer, offset) IN
    IF domainNameData.st = "hang"
    THEN recordResult("hang", "", <<>>, 0, <<>>, NaN)
    ELSE parseRecordFields(buffer, domainNameData.domainName,
                           domainNameData.newOffset)

\* the for loop of parseSections: i records parsed so far, in `records`
RECURSIVE parseSectionsLoop(_, _, _, _, _)
parseSectionsLoop(buffer, count, offset, i, records) ==
    LET r == parseRecord(buffer, offset) IN
    IF ~(i < count)
    THEN [st |-> "ok", err |-> "", records |-> records]
    ELSE IF r.st # "ok"
    THEN [st |-> r.st, err |-> r.err, records |-> <<>>]
    ELSE parseSectionsLoop(buffer, count, r.record.offset, i + 1,
                           Append(records, r.record))

parseSections(buffer, count, startOffset) ==
    parseSectionsLoop(buffer, count, startOffset, 0, <<>>)

\* an updateOffset that keeps the offset where the section started
updateOffset_Unchanged(records, currentOffset) == currentOffset

updateOffset(records, currentOffset) ==
    IF Len(records) > 0 THEN records[Len(records)].offset ELSE currentOffset

\* what parseResponse produces: a Message (st = "ok"), a thrown error
\* (st = "throw") or no return at all (st = "hang")
noMessage(st, err) ==
    [st |-> st, err |-> err,
     header |-> [transactionID |-> 0, questionsCount |-> 0, answersCount |-> 0,
                 authorityCount |-> 0, additionalCount |-> 0],
     questionName |-> <<>>,
     answerRecords |-> <<>>, authorityRecords |-> <<>>,
     additionalRecords |-> <<>>]

\* parseResponse from the additional section on
parseResponseAdditional(buffer, header, question, answers, authority, offset) ==
    LET additional == parseSections(buffer, header.additionalCount, offset) IN
    IF additional.st # "ok"
    THEN noMessage(additional.st, additional.err)
    ELSE [st |-> "ok", err |-> "",
          header |-> header,
          questionName |-> question.domainName,
          answerRecords |-> answers.records,
          authorityRecords |-> authority.records,
          additionalRecords |-> additional.records]

\* parseResponse from the authority section on
parseResponseAuthority(buffer, header, question, answers, offset) ==
    LET authority == parseSections(buffer, header.authorityCount, offset) IN
    IF authority.st # "ok"
    THEN noMessage(authority.st, authority.err)
    ELSE parseResponseAdditional(buffer, header, question, answers, authority,
                                 updateOffset(authority.records, offset))

\* parseResponse from the answer section on
parseResponseAnswers(buffer, header, question, offset) ==
    LET answers == parseSections(buffer, header.answersCount, offset) IN
    IF answers.st # "ok"
    THEN noMessage(answers.st, answers.err)
    ELSE parseResponseAuthority(buffer, header, question, answers,
                                updateOffset(answers.records, offset))

\* parseResponse once isResponse has returned true
parseResponseBody(buffer) ==
    LET question == parseQuestionSection(buffer, 12) IN
    IF ~canReadUInt16BE(buffer, 10)
    THEN noMessage("throw", "RangeError")
    ELSE IF question.st = "hang"
    THEN noMessage("hang", "")
    ELSE parseResponseAnswers(buffer, parseHeader(buffer), question,
                              question.newOffset + 4)

parseResponse(buffer) ==
    IF ~canReadUInt16BE(buffer, 2)
    THEN noMessage("throw", "RangeError")
    ELSE IF ~isResponse(buffer)
    THEN noMessage("throw", "Not a DNS response.")
    ELSE parseResponseBody(buffer)

----------------------------------------------------------------------------
(* Inputs of the codec harness.                                            *)

\* a string or label of n copies of the character c
fill(n, c) == [i \in 1..n |-> c]

\* all sequences over S of length lo..hi
SeqsOf(S, lo, hi) == UNION {[1..n -> S] : n \in lo..hi}

\* bytes of the enumerated buffers: end of name, label lengths, a letter and
\* a compression pointer byte (0xc0)
NameBytes == {0, 1, 2, 3, 97, 192}

RawBuffers == SeqsOf(NameBytes, 0, MaxBufLen)

\* label contents for buffers built from labels: letters, a byte with the
\* high bit set, content bytes equal to 0 and 0xc0, and long labels
PlainLabels ==
    {<<97>>, <<97, 98>>, <<0>>, <<192, 98>>, <<225>>,
     fill(63, 119), fill(64, 120), fill(191, 121)}

\* the wire form of a sequence of labels, written without the encoder
RECURSIVE wireOf(_)
wireOf(labels) ==
    IF labels = <<>> THEN <<0>>
    ELSE <<Len(Head(labels))>> \o Head(labels) \o wireOf(Tail(labels))

\* 03 77 77 77 07 79 6f 75 74 75 62 65 03 63 6f 6d 00
YoutubeLabels ==
    <<<<119, 119, 119>>, <<121, 111, 117, 116, 117, 98, 101>>, <<99, 111, 109>>>>

\* labels of the names given to encodeDomainName: lengths around the
\* boundaries 0, 63/64, 191/192 and 255, and a character above 127
RoundTripLabels ==
    {fill(n, 97) : n \in {0, 1, 2, 63, 64, 191, 192, 255}}
        \cup {<<97, 45>>, <<233>>}

----------------------------------------------------------------------------
(* Response datagrams, built byte by byte as a name server would send them *)
(* (RFC 1035 section 4.1), without using the code under test.              *)

u16(n) == <<n \div 256, n % 256>>

\* one resource record: owner name, TYPE, CLASS IN, a TTL, RDLENGTH, RDATA
rrWith(owner, type, rdlength, rdata) ==
    owner \o u16(type) \o u16(1) \o <<0, 0, 0, 60>> \o u16(rdlength) \o rdata

rr(owner, type, rdata) == rrWith(owner, type, Len(rdata), rdata)

\* 'www.google.com' and '198.41.0.4' as character codes
DOMAIN_TO_RESOLVE ==
    <<119, 119, 119, 46, 103, 111, 111, 103, 108, 101, 46, 99, 111, 109>>
ROOT_DNS_SERVER == <<49, 57, 56, 46, 52, 49, 46, 48, 46, 52>>

QuestionLabels ==
    <<<<119, 119, 119>>, <<103, 111, 111, 103, 108, 101>>, <<99, 111, 109>>>>

\* a message: header, one question (QTYPE A, QCLASS IN), three sections
message(id, flags, answers, authority, additional) ==
    u16(id) \o u16(flags) \o u16(1)
        \o u16(Len(answers)) \o u16(Len(authority)) \o u16(Len(additional))
        \o wireOf(QuestionLabels) \o u16(1) \o u16(1)
        \o Flatten(answers) \o Flatten(authority) \o Flatten(additional)

\* owner names: a pointer to the question name (offset 12), to its last
\* label 'com' (offset 12 + 4 + 7), and the literal names ns1. and ns2.
ptrQuestion == <<192, 12>>
ptrCom == <<192, 23>>
ns1 == wireOf(<<<<110, 115, 49>>>>)
ns2 == wireOf(<<<<110, 115, 50>>>>)

AnswerSections ==
    {<<>>,
     <<rr(ptrQuestion, 1, <<93, 184, 216, 34>>)>>,
     <<rr(ptrQuestion, 5, <<1, 120, 0>>), rr(ptrQuestion, 1, <<1, 2, 3, 4>>)>>}

AuthoritySections ==
    {<<>>,
     <<rr(ptrCom, 6, <<1, 2>>)>>,
     <<rr(ptrCom, 2, ns1)>>,
     <<rr(ptrCom, 2, ns2), rr(ptrCom, 2, ns1)>>,
     <<rr(ptrCom, 6, <<1, 2>>), rr(ptrCom, 2, ns1)>>}

AdditionalSections ==
    {<<>>,
     <<rr(ns1, 1, <<10, 0, 0, 1>>)>>,
     <<rr(ns2, 1, <<10, 0, 0, 2>>)>>,
     <<rr(ns2, 1, <<10, 0, 0, 2>>), rr(ns1, 1, <<10, 0, 0, 1>>)>>,
     <<rr(ns1, 1, <<>>)>>,
     <<rr(ns1, 1, <<>>), rr(ns1, 1, <<10, 0, 0, 1>>)>>,
     <<rr(ns1, 16, <<171>>), rr(ns1, 1, <<10, 0, 0, 1>>)>>}

WellFormedResponses ==
    {message(4660, 32768, an, ns, ar) :
        <<an, ns, ar>> \in AnswerSections \X AuthoritySections \X AdditionalSections}

\* the two end-to-end examples: a referral with glue, and an answer
ReferralResponse ==
    message(4660, 32768, <<>>, <<rr(ptrCom, 2, ns1)>>,
            <<rr(ns1, 1, <<10, 0, 0, 1>>)>>)
AnswerResponse ==
    message(4660, 33152, <<rr(ptrQuestion, 1, <<93, 184, 216, 34>>)>>, <<>>, <<>>)

\* every strict prefix of a message
cuts(m) == {SubSeq(m, 1, n) : n \in 0..(Len(m) - 1)}

\* malformed datagrams: a query (QR clear), a response whose question name
\* is a pointer to itself, a response whose only record states an RDLENGTH
\* of 4 and carries 2 bytes, a response that announces a record it does not
\* carry, and a response cut inside its header
MalformedDatagrams ==
    {message(4660, 256, <<rr(ptrQuestion, 1, <<93, 184, 216, 34>>)>>, <<>>, <<>>),
     u16(4660) \o u16(32768) \o u16(1) \o u16(0) \o u16(0) \o u16(0)
         \o ptrQuestion \o u16(1) \o u16(1),
     message(4660, 32768, <<rrWith(ptrQuestion, 1, 4, <<93, 184>>)>>, <<>>, <<>>),
     u16(4660) \o u16(32768) \o u16(1) \o u16(1) \o u16(0) \o u16(0)
         \o wireOf(QuestionLabels) \o u16(1) \o u16(1),
     u16(4660) \o u16(32768) \o u16(1)}

\* flags fields with bit 15 clear and set
FlagsValues == {0, 256, 32767, 32768, 33152, 65535}

\* src says how the input was made: "raw" (enumerated bytes), "labels" (built
\* from labels), "message" (a well-formed message), "cut" (a strict prefix of
\* a well-formed message), "name" (a dotted name)
newCall(op, src, buffer, offset, labels, domain) ==
    [op |-> op, src |-> src, buffer |-> buffer, offset |-> offset,
     labels |-> labels, domain |-> domain, done |-> FALSE, ret |-> <<>>]

ParseNameInputs ==
    {newCall("parseDomainName", "raw", b, o, <<>>, <<>>) :
        <<b, o>> \in {<<b, o>> \in RawBuffers \X (0..MaxBufLen + 1) : o <= Len(b)}}
    \cup
    {newCall("parseDomainName", "labels", pre \o wireOf(ls) \o suf, Len(pre),
            ls, <<>>) :
        <<pre, ls, suf>> \in
            {<<>>, <<7>>, <<192, 0>>}
                \X (SeqsOf(PlainLabels, 1, MaxLabels) \cup {YoutubeLabels})
                \X {<<>>, <<1>>}}

\* the labels of a name without the zero byte that ends it
labelsWire(labels) == SubSeq(wireOf(labels), 1, Len(wireOf(labels)) - 1)

\* a compression pointer to the offset off (RFC 1035 section 4.1.4)
ptrTo(off) == <<192 + (off \div 256), off % 256>>

\* labels of the compressed names
PointerLabels == {<<97>>, <<98, 99>>}

\* a buffer holding, after pad bytes: the name C (labels l2, zero byte), the
\* name B (labels l1, pointer to C), the name A (labels l0, pointer to B
\* when pointers = 2, to C when pointers = 1), and a suffix.  The call
\* decodes A; ptr is the position of the pointer of A.
pointerCall(pad, l0, l1, l2, pointers, suf) ==
    LET offC == Len(pad)
        offB == offC + Len(wireOf(l2))
        offA == offB + Len(labelsWire(l1)) + 2
    IN  newCall("parseDomainName", "pointer",
                pad \o wireOf(l2) \o labelsWire(l1) \o ptrTo(offC)
                    \o labelsWire(l0) \o ptrTo(IF pointers = 2 THEN offB ELSE offC)
                    \o suf,
                offA,
                IF pointers = 2 THEN l0 \o l1 \o l2 ELSE l0 \o l2,
                <<>>)
            @@ [ptr |-> offA + Len(labelsWire(l0)), pointers |-> pointers]

\* pads of 0 and 300 bytes: pointer targets below and above 255
PointerInputs ==
    {pointerCall(pad, l0, l1, l2, n, suf) :
        <<pad, l0, l1, l2, n, suf>> \in
            {<<>>, fill(300, 7)}
                \X SeqsOf(PointerLabels, 0, MaxLabels)
                \X SeqsOf(PointerLabels, 0, 1)
                \X SeqsOf(PointerLabels, 0, 1)
                \X {1, 2}
                \X {<<>>, <<1>>}}

RoundTripInputs ==
    {newCall("roundTrip", "name", <<>>, 0, ls, join(ls, <<46>>)) :
        ls \in SeqsOf(RoundTripLabels, 1, MaxLabels)}

ParseResponseInputs ==
    {newCall("parseResponse", "message", m, 0, <<>>, <<>>) :
        m \in WellFormedResponses
            \cup {message(4660, f, an, <<>>, <<>>) :
                     <<f, an>> \in FlagsValues \X AnswerSections}}
    \cup
    {newCall("parseResponse", "cut", c, 0, <<>>, <<>>) :
        c \in cuts(ReferralResponse) \cup cuts(AnswerResponse)}
    \cup
    {newCall("parseResponse", "raw", b, 0, <<>>, <<>>) :
        b \in MalformedDatagrams
            \cup cuts(message(4660, 256, <<>>, <<>>, <<>>))
            \cup SeqsOf({0, 127, 128, 255}, 4, 4)}

\* src "sections": a well-formed response together with the records it was
\* built from, section by section
SectionInputs ==
    {newCall("parseResponse", "sections", message(4660, 32768, an, ns, ar), 0,
             <<>>, <<>>)
        @@ [sections |-> <<an, ns, ar>>] :
        <<an, ns, ar>> \in AnswerSections \X AuthoritySections \X AdditionalSections}

\* rdata of the records given to parseRecord, with the number of bytes a
\* name decoder consumes on it (0 when the rdata is not a name): empty, a
\* pointer to offset 0, the literal name ns1., a label and a pointer, four
\* address bytes
RecordRData ==
    {[bytes |-> <<>>, nameLen |-> 0],
     [bytes |-> ptrTo(0), nameLen |-> 2],
     [bytes |-> ns1, nameLen |-> 5],
     [bytes |-> <<1, 97>> \o ptrTo(0), nameLen |-> 4],
     [bytes |-> <<10, 0, 0, 1>>, nameLen |-> 0]}

\* a buffer holding the name com. at offset 0 and then one record: owner
\* (a pointer to offset 0, or ns1.), TYPE, CLASS, TTL, a stated RDLENGTH that
\* may differ from the rdata carried, the rdata, and a suffix
recordCall(owner, type, rdlength, rd, suf) ==
    newCall("parseRecord", "record",
            wireOf(<<<<99, 111, 109>>>>) \o rrWith(owner, type, rdlength, rd.bytes)
                \o suf,
            5, <<>>, <<>>)
        @@ [rec |-> [ownerLen |-> Len(owner), type |-> type,
                     rdlength |-> rdlength, nameLen |-> rd.nameLen]]

RecordInputs ==
    {recordCall(owner, type, rdlength, rd, suf) :
        <<owner, type, rdlength, rd, suf>> \in
            {ptrTo(0), ns1} \X {1, 2, 5, 16, 28} \X {0, 2, 4, 5, 7}
                \X RecordRData \X {<<>>, <<0, 0>>}}

\* records with the shortest owner names: the root name (one zero byte) and
\* a pointer to the zero byte at offset 4
ShortOwnerInputs ==
    {recordCall(owner, type, rdlength, rd, suf) :
        <<owner, type, rdlength, rd, suf>> \in
            {<<0>>, ptrTo(4)} \X {1, 2} \X {0, 4}
                \X RecordRData \X {<<>>, <<0, 0>>}}

\* bytes of the IPv4 rdata: one, two and three decimal digits
IPv4Bytes == {0, 1, 10, 100, 168, 192, 255}

\* 16-bit groups of the IPv6 rdata: one to four hexadecimal digits
IPv6Groups == {0, 1, 10, 255, 2048, 3512, 8193, 43981, 65535}

\* 2001:db8:0:800:0:0:0:1
ExampleGroups == <<8193, 3512, 0, 2048, 0, 0, 0, 1>>

\* the 16 bytes of eight groups
bytesOfGroups(groups) == Flatten([g \in 1..Len(groups) |-> u16(groups[g])])

\* the IPv6 rdata: every pattern of two group values, and the example with
\* one group replaced
IPv6RData ==
    {bytesOfGroups(gs) : gs \in [1..8 -> {0, 43981}]}
    \cup {bytesOfGroups([ExampleGroups EXCEPT ![i] = g]) :
             <<i, g>> \in (1..8) \X IPv6Groups}

\* src "address": a 4-byte A rdata or a 16-byte AAAA rdata; src "raw": any
\* short rdata with the type A, AAAA or TXT (16)
InterpretInputs ==
    {newCall("interpretRDataARecord", "address", r, 0, <<>>, <<>>)
        @@ [type |-> A_RECORD_TYPE] : r \in [1..4 -> IPv4Bytes]}
    \cup
    {newCall("interpretRDataARecord", "address", r, 0, <<>>, <<>>)
        @@ [type |-> AAAA_RECORD_TYPE] : r \in IPv6RData}
    \cup
    {newCall("interpretRDataARecord", "raw", r, 0, <<>>, <<>>)
        @@ [type |-> t] :
        <<r, t>> \in SeqsOf({0, 171, 255}, 0, MaxBufLen)
                        \X {A_RECORD_TYPE, AAAA_RECORD_TYPE, 16}}

\* the domain is a dotted name of the labels; the identifier is one that
\* generateIdentifier can return
CreateQueryInputs ==
    {newCall("createDNSQuery", "name", <<>>, 0, ls, join(ls, <<46>>))
        @@ [identifier |-> id] :
        <<ls, id>> \in (SeqsOf(RoundTripLabels, 1, MaxLabels) \cup {QuestionLabels})
                          \X generateIdentifier}

CodecInputs ==
    ParseNameInputs \cup RoundTripInputs \cup ParseResponseInputs
        \cup InterpretInputs \cup CreateQueryInputs \cup PointerInputs
        \cup SectionInputs \cup RecordInputs \cup ShortOwnerInputs

----------------------------------------------------------------------------
(* index.ts: the resolution engine.                                        *)
(*                                                                         *)
(* Every callback runs to completion on Node's single thread, so each is   *)
(* one action.  An exception that escapes a callback is uncaught and ends  *)
(* the process ("crashed"); a callback that never returns blocks the event *)
(* loop for good ("hung").  In either case no later callback runs.         *)
(* A dgram socket never emits 'timeout', so that handler has no action.    *)

\* the datagrams a hop's socket may receive
Datagrams == WellFormedResponses \cup {AnswerResponse} \cup MalformedDatagrams

\* const response = parseResponse(message), for each datagram
Parsed == [b \in Datagrams |-> parseResponse(b)]

\* what queryDNS sets up: a socket for one hop and a query handed to send();
\* identifier is what generateIdentifier returned for this query, closes
\* counts the calls of client.close()
newHop(domain, server, identifier) ==
    [domain |-> domain, server |-> server, sock |-> "open", sent |-> "pending",
     dnsQuery |-> createDNSQuery(domain, identifier), closes |-> 0]

\* queryDNS(domain, server)
queryDNS(hs, domain, server, identifier) ==
    Append(hs, newHop(domain, server, identifier))

\* client.close()
close(hs, h) == [hs EXCEPT ![h].sock = "closed", ![h].closes = @ + 1]

entry(kind, text) == [kind |-> kind, text |-> text]

\* response.authorityRecords.filter((rec) => rec.type === NS_RECORD_TYPE)
nsRecordsOf(response) ==
    SelectSeq(response.authorityRecords, LAMBDA rec : rec.type = NS_RECORD_TYPE)

\* response.additionalRecords.find((rec) => rec.domainName === nsRecord.rdata):
\* the index of the first such record, 0 when find returns undefined
findGlue(response, nsRecord) ==
    LET hits == {i \in 1..Len(response.additionalRecords) :
                    response.additionalRecords[i].domainName = nsRecord.rdata}
    IN  IF hits = {} THEN 0 ELSE Min(hits)

\* processDNSResponse taking the last NS record instead of the first
processDNSResponse_LastNS(response) ==
    LET nsRecords == nsRecordsOf(response) IN
    IF Len(nsRecords) > 0
    THEN LET nsRecord == nsRecords[Len(nsRecords)]
             g == findGlue(response, nsRecord)
             nsIP == IF g = 0 THEN <<>> ELSE response.additionalRecords[g].rdata
         IN  IF g # 0 /\ nsIP # <<>>
             THEN entry("query", nsIP)
             ELSE entry("nothing", <<>>)
    ELSE IF Len(response.answerRecords) = 0
    THEN entry("throw", "TypeError")
    ELSE entry("found", response.answerRecords[1].rdata)

\* processDNSResponse reporting the last answer record instead of the first
processDNSResponse_LastAnswer(response) ==
    LET nsRecords == nsRecordsOf(response) IN
    IF Len(nsRecords) > 0
    THEN LET nsRecord == nsRecords[1]
             g == findGlue(response, nsRecord)
             nsIP == IF g = 0 THEN <<>> ELSE response.additionalRecords[g].rdata
         IN  IF g # 0 /\ nsIP # <<>>
             THEN entry("query", nsIP)
             ELSE entry("nothing", <<>>)
    ELSE IF Len(response.answerRecords) = 0
    THEN entry("throw", "TypeError")
    ELSE entry("found", response.answerRecords[Len(response.answerRecords)].rdata)

\* processDNSResponse reading answerRecord?.rdata: no TypeError, and
\* 'IP Address found: undefined' on the console
processDNSResponse_OptionalChaining(response) ==
    LET nsRecords == nsRecordsOf(response) IN
    IF Len(nsRecords) > 0
    THEN LET nsRecord == nsRecords[1]
             g == findGlue(response, nsRecord)
             nsIP == IF g = 0 THEN <<>> ELSE response.additionalRecords[g].rdata
         IN  IF g # 0 /\ nsIP # <<>>
             THEN entry("query", nsIP)
             ELSE entry("nothing", <<>>)
    ELSE IF Len(response.answerRecords) = 0
    THEN entry("found", <<>>)
    ELSE entry("found", response.answerRecords[1].rdata)

(***************************************************************************)
(* processDNSResponse, as the one thing it does: "query" (queryDNS to the  *)
(* server in text), "nothing", "found" (console.log of the address in      *)
(* text) or "throw" (reading .rdata of undefined is a TypeError).          *)
(* if (nsIP) is false for undefined and for the empty string.              *)
(***************************************************************************)
processDNSResponse(response) ==
    LET nsRecords == nsRecordsOf(response) IN
    IF Len(nsRecords) > 0
    THEN LET nsRecord == nsRecords[1]
             g == findGlue(response, nsRecord)
             nsIP == IF g = 0 THEN <<>> ELSE response.additionalRecords[g].rdata
         IN  IF g # 0 /\ nsIP # <<>>
             THEN entry("query", nsIP)
             ELSE entry("nothing", <<>>)
    ELSE IF Len(response.answerRecords) = 0
    THEN entry("throw", "TypeError")
    ELSE entry("found", response.answerRecords[1].rdata)

EngineInit ==
    /\ \E identifier \in generateIdentifier :
           hops = queryDNS(<<>>, DOMAIN_TO_RESOLVE, ROOT_DNS_SERVER, identifier)
    /\ status = "running"
    /\ log = <<>>
    /\ lastMsg = <<>>
    /\ lastHop = 0

\* the send callback of hop h, without an error
OnSendDone(h) ==
    /\ status = "running"
    /\ hops[h].sock = "open"
    /\ hops[h].sent = "pending"
    /\ hops' = [hops EXCEPT ![h].sent = "ok"]
    /\ log' = Append(log, entry("sent", hops[h].server))
    /\ UNCHANGED <<call, status, lastMsg, lastHop>>

\* a send callback that, on an error, sends the query again
OnSendError_Retry(h) ==
    /\ status = "running"
    /\ hops[h].sock = "open"
    /\ hops[h].sent = "pending"
    /\ Len(hops) < MaxHops
    /\ \E identifier \in generateIdentifier :
           hops' = queryDNS(close([hops EXCEPT ![h].sent = "error"], h),
                            hops[h].domain, hops[h].server, identifier)
    /\ log' = Append(log, entry("sendError", hops[h].server))
    /\ UNCHANGED <<call, status, lastMsg, lastHop>>

\* the send callback of hop h, with an error
OnSendError(h) ==
    /\ status = "running"
    /\ hops[h].sock = "open"
    /\ hops[h].sent = "pending"
    /\ hops' = close([hops EXCEPT ![h].sent = "error"], h)
    /\ log' = Append(log, entry("sendError", hops[h].server))
    /\ UNCHANGED <<call, status, lastMsg, lastHop>>

\* client.on('error') of hop h
OnError(h) ==
    /\ status = "running"
    /\ hops[h].sock = "open"
    /\ hops' = close(hops, h)
    /\ log' = Append(log, entry("clientError", hops[h].server))
    /\ UNCHANGED <<call, status, lastMsg, lastHop>>

\* what the engine's state is after a callback: the hops, whether the
\* process still runs, and the console
after(hs, st, lg) == [hops |-> hs, status |-> st, log |-> lg]

\* a 'message' handler that leaves its own socket open after
\* processDNSResponse
handleResponse_NoClose(hs, lg, h, response, identifier) ==
    LET effect == processDNSResponse(response) IN
    IF effect.kind = "throw"
    THEN after(hs, "crashed", Append(lg, entry("uncaught", effect.text)))
    ELSE IF effect.kind = "query"
    THEN after(queryDNS(hs, DOMAIN_TO_RESOLVE, effect.text, identifier),
               "running", lg)
    ELSE IF effect.kind = "found"
    THEN after(hs, "running", Append(lg, entry("found", effect.text)))
    ELSE after(hs, "running", lg)

\* the body of client.on('message') once parseResponse has returned:
\* processDNSResponse(response), then client.close(); identifier is what
\* generateIdentifier returns if processDNSResponse calls queryDNS
handleResponse(hs, lg, h, response, identifier) ==
    LET effect == processDNSResponse(response) IN
    IF effect.kind = "throw"
    THEN after(hs, "crashed", Append(lg, entry("uncaught", effect.text)))
    ELSE IF effect.kind = "query"
    THEN after(close(queryDNS(hs, DOMAIN_TO_RESOLVE, effect.text, identifier), h),
               "running", lg)
    ELSE IF effect.kind = "found"
    THEN after(close(hs, h), "running", Append(lg, entry("found", effect.text)))
    ELSE after(close(hs, h), "running", lg)

\* the body of client.on('message') for the result of parseResponse(message)
handleMessage(hs, lg, h, response, identifier) ==
    IF response.st = "hang"
    THEN after(hs, "hung", lg)
    ELSE IF response.st = "throw"
    THEN after(hs, "crashed", Append(lg, entry("uncaught", response.err)))
    ELSE handleResponse(hs, lg, h, response, identifier)

\* client.on('message') of hop h, for the datagram b; a datagram that would
\* open a hop beyond MaxHops is not delivered
OnMessage(h, b, identifier) ==
    /\ status = "running"
    /\ hops[h].sock = "open"
    /\ hops[h].sent = "ok"
    /\ Len(handleMessage(hops, log, h, Parsed[b], identifier).hops) <= MaxHops
    /\ hops' = handleMessage(hops, log, h, Parsed[b], identifier).hops
    /\ status' = handleMessage(hops, log, h, Parsed[b], identifier).status
    /\ log' = handleMessage(hops, log, h, Parsed[b], identifier).log
    /\ lastMsg' = b
    /\ lastHop' = h
    /\ UNCHANGED call

Init ==
    /\ call = newCall("none", "none", <<>>, 0, <<>>, <<>>)
    /\ EngineInit

SendDone == \E h \in 1..Len(hops) : OnSendDone(h)
SendError == \E h \in 1..Len(hops) : OnSendError(h)
SocketError == \E h \in 1..Len(hops) : OnError(h)
Message ==
    \E h \in 1..Len(hops) : \E b \in Datagrams :
        \E identifier \in generateIdentifier : OnMessage(h, b, identifier)

Next ==
    \/ SendDone
    \/ SendError
    \/ SocketError
    \/ Message

Spec == Init /\ [][Next]_vars

----------------------------------------------------------------------------
(* The codec harness: one application of a pure function to one input.     *)

CallParseDomainName ==
    /\ call.op = "parseDomainName"
    /\ ~call.done
    /\ call' = [call EXCEPT !.done = TRUE,
                            !.ret = parseDomainName(call.buffer, call.offset)]
    /\ UNCHANGED engineVars

\* parseDomainName(encodeDomainName(d), 0)
CallRoundTrip ==
    /\ call.op = "roundTrip"
    /\ ~call.done
    /\ LET encoded == encodeDomainName(call.domain) IN
       call' = [call EXCEPT !.done = TRUE,
                            !.buffer = encoded,
                            !.ret = parseDomainName(encoded, 0)]
    /\ UNCHANGED engineVars

CallParseResponse ==
    /\ call.op = "parseResponse"
    /\ ~call.done
    /\ call' = [call EXCEPT !.done = TRUE, !.ret = parseResponse(call.buffer)]
    /\ UNCHANGED engineVars

CallInterpretRData ==
    /\ call.op = "interpretRDataARecord"
    /\ ~call.done
    /\ call' = [call EXCEPT !.done = TRUE,
                            !.ret = interpretRDataARecord(call.buffer, call.type)]
    /\ UNCHANGED engineVars

CallCreateDNSQuery ==
    /\ call.op = "createDNSQuery"
    /\ ~call.done
    /\ call' = [call EXCEPT !.done = TRUE,
                            !.ret = createDNSQuery(call.domain, call.identifier)]
    /\ UNCHANGED engineVars

CallParseRecord ==
    /\ call.op = "parseRecord"
    /\ ~call.done
    /\ call' = [call EXCEPT !.done = TRUE,
                            !.ret = parseRecord(call.buffer, call.offset)]
    /\ UNCHANGED engineVars

CodecInit ==
    /\ call \in CodecInputs
    /\ EngineInit

CodecNext ==
    \/ CallParseDomainName
    \/ CallRoundTrip
    \/ CallParseResponse
    \/ CallInterpretRData
    \/ CallCreateDNSQuery
    \/ CallParseRecord

SpecCodec == CodecInit /\ [][CodecNext]_vars

----------------------------------------------------------------------------
(* Vocabulary of the properties of the engine.                             *)

\* the 'message' handler has run, and parseResponse returned a Message
Handled == lastHop > 0 /\ Parsed[lastMsg].st = "ok"

LastAnswers == Parsed[lastMsg].answerRecords
LastAuthority == Parsed[lastMsg].authorityRecords
LastAdditional == Parsed[lastMsg].additionalRecords

\* positions of the NS records of the authority section
NSPositions == {i \in 1..Len(LastAuthority) : LastAuthority[i].type = 2}

\* the target name of the first NS record
FirstNSTarget == LastAuthority[Min(NSPositions)].rdata

\* positions of the additional records owned by that name
GluePositions ==
    {i \in 1..Len(LastAdditional) : LastAdditional[i].domainName = FirstNSTarget}

FirstGlue == LastAdditional[Min(GluePositions)]

\* the spec's RESOLVED and FAILED, read off the console: an address was
\* reported; an error was reported (console.error, or the uncaught
\* exception that ends the process)
Resolved == \E i \in 1..Len(log) : log[i].kind = "found"
Failed ==
    \E i \in 1..Len(log) : log[i].kind \in {"sendError", "clientError", "uncaught"}

\* the handler of hop lastHop issued exactly one query, to `server`, for the
\* original domain, and released its own socket
OneNextQuery(server) ==
    /\ Len(hops) = lastHop + 1
    /\ hops[lastHop + 1].server = server
    /\ hops[lastHop + 1].domain = DOMAIN_TO_RESOLVE
    /\ hops[lastHop].sock = "closed"

\* the handler of hop lastHop issued no query
NoNextQuery == Len(hops) = lastHop

----------------------------------------------------------------------------
(* C1 - delegation with glue.                                              *)

\* C1 as stated: whenever the response has an NS record in its authority
\* section and an additional record owned by the first NS record's target,
\* exactly one next query is issued, to that record's rdata, for the
\* original domain.
C1_AnyGlueDelegates ==
    (Handled /\ NSPositions # {} /\ GluePositions # {})
        => OneNextQuery(FirstGlue.rdata)

\* C1 amended: the same, when the rdata of the first additional record owned
\* by the first NS record's target is not the empty string.
C1_GlueDelegates ==
    (Handled /\ NSPositions # {} /\ GluePositions # {} /\ FirstGlue.rdata # <<>>)
        => OneNextQuery(FirstGlue.rdata)

\* the referral ns1. with glue 10.0.0.1 was handled at the first hop and the
\* second query went to '10.0.0.1'
C1_Witness ==
    /\ lastHop = 1
    /\ lastMsg = ReferralResponse
    /\ Len(hops) = 2
    /\ hops[2].server = <<49, 48, 46, 48, 46, 48, 46, 49>>
    /\ hops[2].domain = DOMAIN_TO_RESOLVE

----------------------------------------------------------------------------
(* C2 - an answer without NS records in the authority section.             *)

\* C2: when the response has no NS record in its authority section (and
\* has an answer record), no further query is sent and the rdata of the
\* first answer record is reported as the address found.
C2_AnswerResolves ==
    (Handled /\ NSPositions = {} /\ Len(LastAnswers) > 0)
        => /\ NoNextQuery
           /\ hops[lastHop].sock = "closed"
           /\ status = "running"
           /\ log # <<>>
           /\ log[Len(log)] = entry("found", LastAnswers[1].rdata)

\* the answer A 93.184.216.34 was handled and '93.184.216.34' was reported
C2_Witness ==
    /\ lastHop > 0
    /\ lastMsg = AnswerResponse
    /\ log[Len(log)] =
           entry("found", <<57, 51, 46, 49, 56, 52, 46, 50, 49, 54, 46, 51, 52>>)

----------------------------------------------------------------------------
(* C3 - an NS record without glue.                                         *)

\* C3: when the authority section has an NS record and no additional record
\* is owned by the first NS record's target, the attempt is FAILED: an
\* error is reported.
C3_MissingGlueFails ==
    (Handled /\ NSPositions # {} /\ GluePositions = {}) => Failed

----------------------------------------------------------------------------
(* C4 - neither NS records nor answers.                                    *)

\* C4: when the response has no NS record in its authority section and no
\* answer record, the attempt ends with an error (the uncaught exception
\* that ends the process), no address is reported and no query is sent.
C4_EmptyAnswerFails ==
    (Handled /\ NSPositions = {} /\ Len(LastAnswers) = 0)
        => /\ status = "crashed"
           /\ log # <<>>
           /\ log[Len(log)].kind = "uncaught"
           /\ ~Resolved
           /\ NoNextQuery

\* an empty response was handled at the second hop
C4_Witness ==
    /\ Handled
    /\ lastHop = 2
    /\ NSPositions = {}
    /\ Len(LastAnswers) = 0
    /\ status = "crashed"

----------------------------------------------------------------------------
(* C8 - transport and parse errors are terminal.                           *)

\* C8: a step that ends with an error reported (a send error, a socket
\* error, an exception of the 'message' handler) sends no query, and so
\* does every later step: once FAILED, always FAILED, with the same hops.
C8_ErrorsAreTerminal ==
    [][(Failed' => Len(hops') = Len(hops)) /\ (Failed => Failed')]_vars

\* parseResponse threw on the datagram received at the second hop
C8_Witness ==
    /\ lastHop = 2
    /\ Parsed[lastMsg].st = "throw"
    /\ Failed
    /\ status = "crashed"

----------------------------------------------------------------------------
(* Vocabulary of the properties of the codec.                              *)

Called(op) == call.op = op /\ call.done

\* the text of a sequence of labels: each label, read as 7-bit ASCII,
\* followed by '.'
RECURSIVE textOf(_)
textOf(labels) ==
    IF labels = <<>> THEN <<>>
    ELSE [i \in 1..Len(Head(labels)) |-> Head(labels)[i] % 128]
             \o <<46>> \o textOf(Tail(labels))

\* bit 15 of the big-endian flags field at byte offset 2
QRBitSet(buffer) == buffer[3] >= 128

----------------------------------------------------------------------------
(* C5 - parseResponse and the QR bit.                                      *)

\* C5: for a buffer that has a flags field, parseResponse throws
\* 'Not a DNS response.', returning no part of a Message, exactly when
\* bit 15 of the flags is clear.
C5_QRBitDecides ==
    (Called("parseResponse") /\ Len(call.buffer) >= 4)
        => /\ ~QRBitSet(call.buffer)
                 => call.ret = noMessage("throw", "Not a DNS response.")
           /\ QRBitSet(call.buffer)
                 => ~(call.ret.st = "throw" /\ call.ret.err = "Not a DNS response.")

\* a complete message with flags 0x0100 (a query) was refused
C5_Witness ==
    /\ Called("parseResponse")
    /\ call.src = "message"
    /\ ~QRBitSet(call.buffer)
    /\ call.ret.st = "throw"
    /\ call.ret.err = "Not a DNS response."

----------------------------------------------------------------------------
(* C6 - pointer safety.                                                    *)

\* C6: decoding a name that starts with a compression pointer whose target
\* is at or after the pointer's own position terminates (with an error).
C6_PointerSafety ==
    (/\ Called("parseDomainName")
     /\ call.offset + 1 < Len(call.buffer)
     /\ call.buffer[call.offset + 1] >= 192
     /\ (call.buffer[call.offset + 1] % 64) * 256 + call.buffer[call.offset + 2]
            >= call.offset)
        => call.ret.st # "hang"

----------------------------------------------------------------------------
(* C7 - reads beyond the end of the buffer.                                *)

\* C7: parseResponse on a response that was cut short (a strict prefix of
\* a well-formed response, long enough to hold the flags) throws: it
\* neither returns a Message nor fails to return.
C7_TruncationDetected ==
    (Called("parseResponse") /\ call.src = "cut" /\ Len(call.buffer) >= 4)
        => call.ret.st = "throw"

----------------------------------------------------------------------------
(* C9 - encodeDomainName / parseDomainName round trip.                     *)

\* C9 as stated: for every dotted name d of (non-empty, ASCII) labels of at
\* most 255 bytes, parseDomainName(encodeDomainName(d), 0).domainName is d
\* followed by '.'.
C9_RoundTripAnyLabel ==
    (/\ Called("roundTrip")
     /\ \A i \in 1..Len(call.labels) :
            /\ Len(call.labels[i]) \in 1..255
            /\ \A j \in 1..Len(call.labels[i]) : call.labels[i][j] < 128)
        => /\ call.ret.st = "ok"
           /\ call.ret.domainName = call.domain \o <<46>>

\* C9 amended: the same, for names whose labels are not empty, are at most
\* 191 characters long and hold character codes below 128 only.
C9_RoundTrip ==
    (/\ Called("roundTrip")
     /\ \A i \in 1..Len(call.labels) :
            /\ Len(call.labels[i]) \in 1..191
            /\ \A j \in 1..Len(call.labels[i]) : call.labels[i][j] < 128)
        => /\ call.ret.st = "ok"
           /\ call.ret.domainName = call.domain \o <<46>>

\* a name with a label of 191 characters made the round trip
C9_Witness ==
    /\ Called("roundTrip")
    /\ \E i \in 1..Len(call.labels) : Len(call.labels[i]) = 191
    /\ \A i \in 1..Len(call.labels) :
           /\ Len(call.labels[i]) \in 1..191
           /\ \A j \in 1..Len(call.labels[i]) : call.labels[i][j] < 128
    /\ call.ret.st = "ok"
    /\ call.ret.domainName = call.domain \o <<46>>

----------------------------------------------------------------------------
(* C10 - names without compression pointers.                               *)

\* C10: on a buffer that holds, from the offset, length-prefixed labels and
\* a zero byte, parseDomainName returns each label (read as 7-bit ASCII)
\* followed by '.', and the offset just after the zero byte.
C10_PlainName ==
    (Called("parseDomainName") /\ call.src = "labels")
        => /\ call.ret.st = "ok"
           /\ call.ret.domainName = textOf(call.labels)
           /\ call.ret.newOffset = call.offset + Len(wireOf(call.labels))

\* the 17 bytes of www.youtube.com at offset 0 gave ("www.youtube.com.", 17)
C10_Witness ==
    /\ Called("parseDomainName")
    /\ call.buffer = <<3, 119, 119, 119, 7, 121, 111, 117, 116, 117, 98, 101,
                       3, 99, 111, 109, 0>>
    /\ call.offset = 0
    /\ call.ret = [st |-> "ok",
                   domainName |-> <<119, 119, 119, 46,
                                    121, 111, 117, 116, 117, 98, 101, 46,
                                    99, 111, 109, 46>>,
                   newOffset |-> 17]

----------------------------------------------------------------------------
(* C11, C12 - the text of A and AAAA rdata.                                *)

\* the decimal digits of a byte, by the number of digits
decimalOf(b) ==
    IF b < 10 THEN <<48 + b>>
    ELSE IF b < 100 THEN <<48 + (b \div 10), 48 + (b % 10)>>
    ELSE <<48 + (b \div 100), 48 + ((b \div 10) % 10), 48 + (b % 10)>>

\* '0123456789abcdef'
HexDigits == <<48, 49, 50, 51, 52, 53, 54, 55, 56, 57, 97, 98, 99, 100, 101, 102>>

\* the lowercase hexadecimal digits of a 16-bit value without leading zeros
hexOf(v) ==
    LET d1 == HexDigits[(v \div 4096) + 1]
        d2 == HexDigits[((v \div 256) % 16) + 1]
        d3 == HexDigits[((v \div 16) % 16) + 1]
        d4 == HexDigits[(v % 16) + 1]
    IN  IF v >= 4096 THEN <<d1, d2, d3, d4>>
        ELSE IF v >= 256 THEN <<d2, d3, d4>>
        ELSE IF v >= 16 THEN <<d3, d4>>
        ELSE <<d4>>

\* the 16-bit big-endian value of group g (1..8) of a 16-byte rdata
groupAt(rdata, g) == rdata[2 * g - 1] * 256 + rdata[2 * g]

\* C11: for a 4-byte rdata and the type A, interpretRDataARecord returns the
\* four bytes as unsigned decimal numbers, in order, joined by '.'.
C11_IPv4Text ==
    (Called("interpretRDataARecord") /\ call.type = A_RECORD_TYPE
        /\ Len(call.buffer) = 4)
        => /\ call.ret.st = "ok"
           /\ call.ret.value =
                  decimalOf(call.buffer[1]) \o <<46>> \o decimalOf(call.buffer[2])
                      \o <<46>> \o decimalOf(call.buffer[3])
                      \o <<46>> \o decimalOf(call.buffer[4])

\* [192, 168, 1, 1] gave '192.168.1.1'
C11_Witness ==
    /\ Called("interpretRDataARecord")
    /\ call.type = A_RECORD_TYPE
    /\ call.buffer = <<192, 168, 1, 1>>
    /\ call.ret.st = "ok"
    /\ call.ret.value = <<49, 57, 50, 46, 49, 54, 56, 46, 49, 46, 49>>

\* C12: for a 16-byte rdata and the type AAAA, interpretRDataARecord returns
\* eight groups joined by ':', group g being the big-endian value of bytes
\* 2g-2 and 2g-1 in lowercase hexadecimal without leading zeros; runs of
\* zero groups are written out.
C12_IPv6Text ==
    (Called("interpretRDataARecord") /\ call.type = AAAA_RECORD_TYPE
        /\ Len(call.buffer) = 16)
        => /\ call.ret.st = "ok"
           /\ call.ret.value =
                  hexOf(groupAt(call.buffer, 1)) \o <<58>>
                      \o hexOf(groupAt(call.buffer, 2)) \o <<58>>
                      \o hexOf(groupAt(call.buffer, 3)) \o <<58>>
                      \o hexOf(groupAt(call.buffer, 4)) \o <<58>>
                      \o hexOf(groupAt(call.buffer, 5)) \o <<58>>
                      \o hexOf(groupAt(call.buffer, 6)) \o <<58>>
                      \o hexOf(groupAt(call.buffer, 7)) \o <<58>>
                      \o hexOf(groupAt(call.buffer, 8))

\* 20 01 0d b8 00 00 08 00 00 00 00 00 00 00 00 01 gave
\* '2001:db8:0:800:0:0:0:1'
C12_Witness ==
    /\ Called("interpretRDataARecord")
    /\ call.type = AAAA_RECORD_TYPE
    /\ call.buffer = <<32, 1, 13, 184, 0, 0, 8, 0, 0, 0, 0, 0, 0, 0, 0, 1>>
    /\ call.ret.st = "ok"
    /\ call.ret.value = <<50, 48, 48, 49, 58, 100, 98, 56, 58, 48, 58,
                          56, 48, 48, 58, 48, 58, 48, 58, 48, 58, 49>>

----------------------------------------------------------------------------
(* C13 - the layout of a query.                                            *)

----------------------------------------------------------------------------
(* C15 - one query in flight.                                              *)

\* the hops whose socket is open: the queries in flight
OpenHops == {h \in 1..Len(hops) : hops[h].sock = "open"}

\* C15: between callbacks at most one socket is open; every hop but the
\* newest was sent, got its response and is closed; and the hops number at
\* most one more than the hop whose response was handled last, so no
\* response opened two hops.
C15_OneQueryInFlight ==
    /\ Cardinality(OpenHops) <= 1
    /\ \A h \in 1..(Len(hops) - 1) :
           hops[h].sock = "closed" /\ hops[h].sent = "ok"
    /\ Len(hops) <= lastHop + 1
    /\ lastHop <= Len(hops)

\* the third hop is in flight, opened by the response to the second
C15_Witness ==
    /\ Len(hops) = 3
    /\ lastHop = 2
    /\ OpenHops = {3}
    /\ hops[3].sent = "ok"

----------------------------------------------------------------------------
(* C16 - the transaction ID of a response.                                 *)

\* the 'message' handler of hop lastHop ran on a datagram whose first two
\* bytes are not the identifier of the query sent on that hop
Mismatched ==
    /\ lastHop > 0
    /\ SubSeq(lastMsg, 1, 2) # SubSeq(hops[lastHop].dnsQuery, 1, 2)

\* C16: a datagram whose transaction ID differs from the identifier of the
\* hop's query causes no next query and no reported address.
C16_OnlyMatchingResponse == Mismatched => (NoNextQuery /\ ~Resolved)

----------------------------------------------------------------------------
(* C20 - the socket of a hop is released.                                  *)

\* hop h has seen its send fail, its socket fail, or its message arrive
Finished(h) ==
    \/ hops[h].sent = "error"
    \/ h <= lastHop
    \/ /\ h = Len(hops)
       /\ log # <<>>
       /\ log[Len(log)].kind = "clientError"

\* C20: a hop whose message was received, or that failed, has its socket
\* closed, by exactly one call of close(); no socket is closed twice.
C20_SocketReleased ==
    \A h \in 1..Len(hops) :
        /\ hops[h].closes <= 1
        /\ Finished(h) => (hops[h].sock = "closed" /\ hops[h].closes = 1)

----------------------------------------------------------------------------
(* C17 - names with compression pointers.                                  *)

\* C17: on a name whose labels are followed by a pointer, to a name that
\* ends with a zero byte or with a second pointer to such a name,
\* parseDomainName returns the labels before the first pointer followed by
\* the labels at each target, and the offset of the first pointer plus 2.
C17_PointerName ==
    (Called("parseDomainName") /\ call.src = "pointer")
        => /\ call.ret.st = "ok"
           /\ call.ret.domainName = textOf(call.labels)
           /\ call.ret.newOffset = call.ptr + 2

\* two pointers were followed, to targets above offset 255, and labels were
\* read before the first pointer and at both targets
C17_Witness ==
    /\ Called("parseDomainName")
    /\ call.src = "pointer"
    /\ call.pointers = 2
    /\ call.offset > 255
    /\ call.ptr > call.offset
    /\ Len(call.labels) >= 3
    /\ call.ret.st = "ok"
    /\ call.ret.domainName = textOf(call.labels)
    /\ call.ret.newOffset = call.ptr + 2

----------------------------------------------------------------------------
(* C18 - the sections of a response.                                       *)

\* the 16-bit count at byte offset off of the header
countAt(buffer, off) == buffer[off + 1] * 256 + buffer[off + 2]

\* the TYPE of a record as built: after a 2-byte pointer, or after an owner
\* name of one label
wireType(r) ==
    IF r[1] >= 192 THEN r[3] * 256 + r[4]
    ELSE r[r[1] + 3] * 256 + r[r[1] + 4]

\* the offset of the first record: header, question name, QTYPE and QCLASS
FirstRecordOffset == 12 + Len(wireOf(QuestionLabels)) + 4

\* the offset just after record i of the records a message was built from
endOfRecord(built, i) == FirstRecordOffset + Len(Flatten(SubSeq(built, 1, i)))

\* C18: when parseResponse returns a Message, each section has as many
\* records as the header announces; on a message built from three lists of
\* records it returns these records in buffer order, the first starting 4
\* bytes after the question name and each one where the one before ended,
\* across sections and across empty sections.
C18_SectionLayout ==
    /\ (Called("parseResponse") /\ call.ret.st = "ok")
           => /\ Len(call.ret.answerRecords) = countAt(call.buffer, 6)
              /\ Len(call.ret.authorityRecords) = countAt(call.buffer, 8)
              /\ Len(call.ret.additionalRecords) = countAt(call.buffer, 10)
    /\ (Called("parseResponse") /\ call.src = "sections")
           => LET built == call.sections[1] \o call.sections[2] \o call.sections[3]
                  parsed == call.ret.answerRecords \o call.ret.authorityRecords
                                \o call.ret.additionalRecords
              IN  /\ call.ret.st = "ok"
                  /\ Len(call.ret.answerRecords) = Len(call.sections[1])
                  /\ Len(call.ret.authorityRecords) = Len(call.sections[2])
                  /\ Len(call.ret.additionalRecords) = Len(call.sections[3])
                  /\ \A i \in 1..Len(built) :
                         /\ parsed[i].type = wireType(built[i])
                         /\ parsed[i].offset = endOfRecord(built, i)

\* a response with one answer record, no authority record and two
\* additional records: the last record ended at the end of the buffer
C18_Witness ==
    /\ Called("parseResponse")
    /\ call.src = "sections"
    /\ Len(call.sections[1]) = 1
    /\ Len(call.sections[2]) = 0
    /\ Len(call.sections[3]) = 2
    /\ call.ret.st = "ok"
    /\ Len(call.ret.authorityRecords) = 0
    /\ call.ret.answerRecords[1].offset = endOfRecord(call.sections[1], 1)
    /\ call.ret.additionalRecords[2].offset = Len(call.buffer)

----------------------------------------------------------------------------
(* C19 - the offset after a record.                                        *)

\* where the rdata of the record starts: owner name, then TYPE, CLASS, TTL
\* and RDLENGTH (10 bytes)
RDataStart == call.offset + call.rec.ownerLen + 10

\* C19: when parseRecord returns, the record's offset is, for a type other
\* than NS, the rdata start plus the stated RDLENGTH, whatever rdata the
\* buffer carries; for NS, the offset after the name decoded at the rdata
\* start (the rdata start plus the bytes of that name), whatever RDLENGTH
\* states.
C19_RecordOffset ==
    (Called("parseRecord") /\ call.ret.st = "ok")
        => /\ call.ret.record.type = call.rec.type
           /\ call.rec.type # NS_RECORD_TYPE
                  => call.ret.record.offset = RDataStart + call.rec.rdlength
           /\ call.rec.type = NS_RECORD_TYPE
                  => /\ call.ret.record.offset
                            = parseDomainName(call.buffer, RDataStart).newOffset
                     /\ call.rec.nameLen > 0
                            => call.ret.record.offset = RDataStart + call.rec.nameLen

\* an NS record whose rdata is a pointer and whose RDLENGTH states 7: the
\* offset is the rdata start plus 2
C19_Witness ==
    /\ Called("parseRecord")
    /\ call.rec.type = NS_RECORD_TYPE
    /\ call.rec.rdlength = 7
    /\ call.rec.nameLen = 2
    /\ call.ret.st = "ok"
    /\ call.ret.record.offset = RDataStart + 2

----------------------------------------------------------------------------
(* C21 - the destination of a delegated hop.                               *)

\* dotted decimal: digits and exactly three '.'
IsIPv4Text(s) ==
    /\ \A i \in 1..Len(s) : s[i] \in (48..57) \cup {46}
    /\ Cardinality({i \in 1..Len(s) : s[i] = 46}) = 3

\* colon-separated groups: hexadecimal digits and exactly seven ':'
IsIPv6Text(s) ==
    /\ \A i \in 1..Len(s) : s[i] \in (48..57) \cup (97..102) \cup {58}
    /\ Cardinality({i \in 1..Len(s) : s[i] = 58}) = 7

\* the handler of hop lastHop issued a query
Delegated == Handled /\ Len(hops) = lastHop + 1

\* C21: the server of every query after the first is an IPv4 or IPv6
\* address text, and the additional record that gave it is of type A or
\* AAAA.
C21_GlueIsAddress ==
    /\ \A h \in 2..Len(hops) :
           IsIPv4Text(hops[h].server) \/ IsIPv6Text(hops[h].server)
    /\ Delegated => FirstGlue.type \in {A_RECORD_TYPE, AAAA_RECORD_TYPE}

----------------------------------------------------------------------------
(* C22 - every attempt ends RESOLVED or FAILED.                            *)

\* no callback can run any more: the process has stopped, or no socket is
\* open
Quiescent == status # "running" \/ OpenHops = {}

\* C22: an attempt that can take no further step has reported an address
\* or an error.
C22_EndsResolvedOrFailed == Quiescent => (Resolved \/ Failed)

----------------------------------------------------------------------------
(* C23 - parsing advances.                                                 *)

\* the records of a Message in buffer order
recordsOf(m) == m.answerRecords \o m.authorityRecords \o m.additionalRecords

\* C23: the offset parseRecord returns is at least 11 beyond the offset
\* where the record started; in a Message the first record ends at least 11
\* beyond the start of the answer section (header, a question name of at
\* least one byte, QTYPE, QCLASS) and each record at least 11 beyond the
\* record before it.
C23_OffsetsAdvance ==
    /\ (Called("parseRecord") /\ call.ret.st = "ok")
           => call.ret.record.offset >= call.offset + 11
    /\ (Called("parseResponse") /\ call.ret.st = "ok")
           => LET parsed == recordsOf(call.ret)
              IN  /\ parsed # <<>> => parsed[1].offset >= 12 + 1 + 4 + 11
                  /\ \A i \in 1..(Len(parsed) - 1) :
                         parsed[i + 1].offset >= parsed[i].offset + 11

\* a record owned by the root name with an RDLENGTH of 0 ended exactly 11
\* bytes after its start
C23_Witness ==
    /\ Called("parseRecord")
    /\ call.rec.ownerLen = 1
    /\ call.rec.type = A_RECORD_TYPE
    /\ call.rec.rdlength = 0
    /\ call.ret.st = "ok"
    /\ call.ret.record.offset = call.offset + 11

============================================================================
